---- MODULE Spec2Model ----
(***************************************************************************)
(* MovieHouse front-end: the App component's pagination, search-debounce   *)
(* and last-item visibility logic, as written in the two families of the   *)
(* repository's near-duplicate versions:                                   *)
(*   "appjs" : src/src/App.js (the later copies in src/unnamed/part_000,   *)
(*             lines 2280ff and 3609ff, repeat its logic)                  *)
(*   "part0" : the first App of src/unnamed/part_000 (lines 690-1675)      *)
(* A React event is one action: the handler runs against the values of the *)
(* render it was created in (the closure c), its setState calls build the  *)
(* next state s, and the effects whose dependencies changed run before the *)
(* next event.  Strings the code trims or measures are sequences of        *)
(* one-character strings.  Time is counted in ticks of 100 ms.             *)
(***************************************************************************)
EXTENDS Integers, Sequences, FiniteSets, TLC

Null == "null"

\* ---------------------------------------------------------------- bounds
MaxPage == 3
MaxInflight == 2
MaxTimers == 2
MaxEvents == 3
NImages == 2
MaxEntries == 2
MaxCalls == 2

\* ------------------------------------------------------ program constants
SuggestDelay == 3
SearchDelay == 5
MaxSuggestions == 5
EventObj == 0 - 1

Variants == {"appjs", "part0"}

\* ------------------------------------------------------------ the inputs
qEmpty == << >>
qSpace == <<" ">>
qB == <<"b">>
qBa == <<"b", "a">>
qBat == <<"b", "a", "t">>
Queries == {qEmpty, qSpace, qB, qBa, qBat}

itemA == [id |-> 1, title |-> qBa]
itemB == [id |-> 2, title |-> qBat]
itemB2 == [id |-> 2, title |-> qB]
itemC == [id |-> 3, title |-> qBat]
itemBad == [id |-> 4, title |-> qEmpty]

pageAB == <<itemA, itemB>>
pageBC == <<itemB2, itemC, itemBad, itemC>>

\* What the upstream may answer: a transport failure (status 0), an error
\* status, or a 200 whose body has or lacks the results array.
Outcomes ==
  {[status |-> st, hasResults |-> FALSE, results |-> << >>, total_pages |-> 0] :
      st \in {0, 429, 500}}
  \cup {[status |-> 200, hasResults |-> TRUE, results |-> pageAB, total_pages |-> 3],
        [status |-> 200, hasResults |-> TRUE, results |-> pageBC, total_pages |-> 3],
        [status |-> 200, hasResults |-> TRUE, results |-> << >>, total_pages |-> 0],
        [status |-> 200, hasResults |-> FALSE, results |-> << >>, total_pages |-> 1]}

movieCategoryLabels == {"trending", "popular"}
tvCategoryLabels == {"popular_tv", "tv_action"}
Languages == {"en", "tl"}

\* ----------------------------------------------------------- error texts
MsgRateLimit == "API rate limit exceeded. Please try again later."
MsgStatus == "Failed to fetch data: status"
MsgInvalid == "Invalid data received from API"
MsgNetwork == "Failed to fetch"
MsgLoad == "Failed to load content"
MsgSearchStatus == "Search failed: status"
MsgSearch == "Search failed"
MsgConfig == "Configuration error: API key is missing. Please check your setup."

\* -------------------------------------------------------- pure functions
RECURSIVE TrimStart(_)
TrimStart(q) == IF q # << >> /\ Head(q) = " " THEN TrimStart(Tail(q)) ELSE q

RECURSIVE TrimEnd(_)
TrimEnd(q) ==
  IF q # << >> /\ q[Len(q)] = " " THEN TrimEnd(SubSeq(q, 1, Len(q) - 1)) ELSE q

trim(q) == TrimEnd(TrimStart(q))

isValidMediaItem(item) == item.id # 0 /\ item.title # << >>

filterValid(items) == SelectSeq(items, isValidMediaItem)

slice(items, n) == SubSeq(items, 1, IF Len(items) < n THEN Len(items) ELSE n)

\* validResults[0] || null read from the wrong end of the page.
firstFromEnd(items) == IF items = << >> THEN << >> ELSE <<items[Len(items)]>>

first(items) == IF items = << >> THEN << >> ELSE <<items[1]>>

ids(items) == {items[i].id : i \in 1..Len(items)}

RECURSIVE withoutIds(_, _)
withoutIds(items, existing) ==
  IF items = << >> THEN << >>
  ELSE IF Head(items).id \in existing THEN withoutIds(Tail(items), existing)
       ELSE <<Head(items)>> \o withoutIds(Tail(items), existing)

mergeMovies(prev, validResults) == prev \o withoutIds(validResults, ids(prev))

removeAt(q, i) == SubSeq(q, 1, i - 1) \o SubSeq(q, i + 1, Len(q))

\* ------------------------------------------------------------- the state
VARIABLES
  variant,            \* which version of App is running
  API_KEY,            \* process.env.REACT_APP_TMDB_API_KEY is set
  category, showTVSeriesPage, selectedLanguage, search,
  movies, featured, page, hasMore, loading, error,
  searchResults, suggestions, isSearching,
  timers,             \* pending setTimeout callbacks, in creation order
  inflight,           \* fetch() calls awaiting their response, in issue order
  observing,          \* the IntersectionObserver is connected to a mounted last cell
  events,             \* number of user events so far (bounded by MaxEvents)
  images,             \* the OptimizedImage instances under study, one record each
  gateway,            \* the page request under study and the endpoint built for it
  session,            \* the preference state of App and the localStorage blob
  favs,               \* the favorites list of App and the media mode it is toggled in
  watch,              \* the player and TV details modal state of App
  modal,              \* the state of TVShowDetailsModal, its props and its requests in flight
  urlCall             \* one call of getOptimizedImageUrl: its arguments and its result

appVars == <<variant, API_KEY, category, showTVSeriesPage, selectedLanguage, search,
             movies, featured, page, hasMore, loading, error,
             searchResults, suggestions, isSearching,
             timers, inflight, observing, events>>

\* State of the components that are studied apart from App.
partVars == <<images, gateway, session, favs, watch, modal, urlCall>>

vars == <<appVars, partVars>>

\* The values a render sees (and every closure created in it captures).
Cur ==
  [variant |-> variant, API_KEY |-> API_KEY, category |-> category,
   showTVSeriesPage |-> showTVSeriesPage, selectedLanguage |-> selectedLanguage,
   search |-> search, movies |-> movies, featured |-> featured, page |-> page,
   hasMore |-> hasMore, loading |-> loading, error |-> error,
   searchResults |-> searchResults, suggestions |-> suggestions,
   isSearching |-> isSearching, timers |-> timers, inflight |-> inflight,
   observing |-> observing]

Commit(s) ==
  /\ variant' = s.variant
  /\ API_KEY' = s.API_KEY
  /\ category' = s.category
  /\ showTVSeriesPage' = s.showTVSeriesPage
  /\ selectedLanguage' = s.selectedLanguage
  /\ search' = s.search
  /\ movies' = s.movies
  /\ featured' = s.featured
  /\ page' = s.page
  /\ hasMore' = s.hasMore
  /\ loading' = s.loading
  /\ error' = s.error
  /\ searchResults' = s.searchResults
  /\ suggestions' = s.suggestions
  /\ isSearching' = s.isSearching
  /\ timers' = s.timers
  /\ inflight' = s.inflight
  /\ observing' = s.observing

\* ------------------------------------------------------------ page fetch
request(kind, fn, cat, pageNum, shouldReset, c, query) ==
  [kind |-> kind, fn |-> fn, cat |-> cat, pageNum |-> pageNum,
   shouldReset |-> shouldReset, tv |-> c.showTVSeriesPage,
   lang |-> c.selectedLanguage, query |-> query]

\* fetchTrending / fetchByCategory up to their await: both set the same state.
fetchPage(fn, c, s, cat, pageNum, shouldReset) ==
  IF s.variant = "part0" /\ ~s.API_KEY THEN s ELSE
  [s EXCEPT !.loading = IF s.variant = "appjs" \/ shouldReset THEN TRUE ELSE @,
            !.error = Null,
            !.inflight = Append(@, request("page", fn, cat, pageNum, shouldReset, c, << >>))]

fetchTrending(c, s, pageNum, shouldReset) ==
  fetchPage("fetchTrending", c, s, "trending", pageNum, shouldReset)

fetchByCategory(c, s, cat, pageNum, shouldReset) ==
  fetchPage("fetchByCategory", c, s, cat, pageNum, shouldReset)

\* A reset that issues no request.
loadCategorySkipped(c, s) == s

\* category === "trending" ? fetchTrending() : fetchByCategory(category)
loadCategory(c, s) ==
  IF c.category = "trending" THEN fetchTrending(c, s, 1, TRUE)
  ELSE fetchByCategory(c, s, c.category, 1, TRUE)

\* The message thrown inside the try block of a page fetch, Null if none.
pageFailure(v, o) ==
  IF v = "part0"
  THEN IF o.status = 0 THEN MsgNetwork
       ELSE IF o.status = 429 THEN MsgRateLimit
       ELSE IF o.status # 200 THEN MsgStatus
       ELSE IF ~o.hasResults THEN MsgInvalid
       ELSE Null
  ELSE IF o.status # 200 THEN MsgLoad ELSE Null

\* The rest of fetchTrending / fetchByCategory after the await.
pageResolved(s, r, o) ==
  LET msg == pageFailure(s.variant, o) IN
  IF s.variant = "part0"
  THEN LET validResults == filterValid(o.results)
           done ==
             IF msg # Null
             THEN [s EXCEPT !.error = msg,
                            !.movies = IF r.pageNum = 1 THEN << >> ELSE @,
                            !.featured = IF r.pageNum = 1 THEN << >> ELSE @]
             ELSE [s EXCEPT !.movies = IF r.pageNum = 1 \/ r.shouldReset
                                       THEN validResults
                                       ELSE mergeMovies(@, validResults),
                            !.featured = IF r.pageNum = 1 \/ r.shouldReset
                                         THEN first(validResults) ELSE @,
                            !.hasMore = r.pageNum <
                                        (IF o.total_pages = 0 THEN 1 ELSE o.total_pages),
                            !.page = r.pageNum]
       IN [done EXCEPT !.loading = IF r.shouldReset THEN FALSE ELSE @]
  ELSE LET done ==
             IF msg # Null
             THEN [s EXCEPT !.error = msg]
             ELSE [s EXCEPT !.movies = IF r.pageNum = 1 THEN o.results
                                       ELSE @ \o o.results,
                            !.featured = IF r.pageNum = 1 THEN first(o.results) ELSE @,
                            !.hasMore = r.pageNum # EventObj /\ r.pageNum < o.total_pages,
                            !.page = r.pageNum]
       IN [done EXCEPT !.loading = FALSE]

\* --------------------------------------------------------------- timers
clearTimeout(s, holder) ==
  [s EXCEPT !.timers = SelectSeq(@, LAMBDA t : t.held # holder)]

\* A setTimeout that gives every callback the delay of the full search.
setTimeoutOneDelay(s, kind, value, delay, holder, c) ==
  [s EXCEPT !.timers = Append(@, [kind |-> kind, value |-> value, left |-> SearchDelay,
                                  held |-> holder, tv |-> c.showTVSeriesPage,
                                  lang |-> c.selectedLanguage,
                                  category |-> c.category])]

setTimeout(s, kind, value, delay, holder, c) ==
  [s EXCEPT !.timers = Append(@, [kind |-> kind, value |-> value, left |-> delay,
                                  held |-> holder, tv |-> c.showTVSeriesPage,
                                  lang |-> c.selectedLanguage,
                                  category |-> c.category])]

\* debounceRef.current(func, delay)(value): one shared timeoutId per instance.
createDebounce(s, value, delay, c) ==
  setTimeout(clearTimeout(s, "debounce"), "search", value, delay, "debounce", c)

\* --------------------------------------------------------------- search
fetchSearchSuggestions(c, s, query) ==
  IF (s.variant = "part0" /\ ~s.API_KEY) \/ Len(trim(query)) < 2
  THEN [s EXCEPT !.suggestions = << >>]
  ELSE [s EXCEPT !.inflight =
          Append(@, request("suggest", "fetchSearchSuggestions", "none", 1, FALSE, c, query))]

suggestResolved(s, r, o) ==
  IF s.variant = "part0"
  THEN IF o.status = 0 THEN [s EXCEPT !.suggestions = << >>]
       ELSE IF o.status # 200 THEN s
       ELSE IF o.hasResults
            THEN [s EXCEPT !.suggestions = filterValid(slice(o.results, MaxSuggestions))]
            ELSE [s EXCEPT !.suggestions = << >>]
  ELSE IF o.status = 0 THEN [s EXCEPT !.suggestions = << >>]
       ELSE [s EXCEPT !.suggestions = slice(o.results, MaxSuggestions)]

handleClearSearch(c, s) ==
  LET cleared == [s EXCEPT !.search = << >>, !.searchResults = << >>,
                           !.suggestions = << >>, !.isSearching = FALSE,
                           !.page = 1, !.hasMore = TRUE,
                           !.movies = IF s.variant = "part0" THEN << >> ELSE @]
  IN loadCategory(c, clearTimeout(cleared, "typing"))

performSearch(c, s, query) ==
  IF trim(query) = << >>
  THEN IF s.variant = "part0" THEN handleClearSearch(c, s)
       ELSE loadCategory(c, [s EXCEPT !.searchResults = << >>, !.suggestions = << >>,
                                      !.isSearching = FALSE, !.search = << >>,
                                      !.page = 1, !.hasMore = TRUE])
  ELSE [s EXCEPT !.isSearching = TRUE, !.loading = TRUE, !.error = Null,
                 !.inflight = Append(@, request("search", "performSearch", "none", 1,
                                                TRUE, c, query))]

searchFailure(v, o) ==
  IF v = "part0"
  THEN IF o.status = 0 THEN MsgNetwork
       ELSE IF o.status = 429 THEN MsgRateLimit
       ELSE IF o.status # 200 THEN MsgSearchStatus
       ELSE Null
  ELSE IF o.status # 200 THEN MsgSearch ELSE Null

\* searchResolved with a catch block that forgets setSuggestions([]).
searchResolvedKeepsSuggestions(s, r, o) ==
  LET msg == searchFailure(s.variant, o)
      found == IF s.variant = "part0"
               THEN (IF o.hasResults THEN filterValid(o.results) ELSE << >>)
               ELSE o.results
      done == IF msg # Null
              THEN [s EXCEPT !.error = msg, !.searchResults = << >>]
              ELSE [s EXCEPT !.searchResults = found, !.suggestions = << >>,
                             !.featured = << >>, !.movies = << >>,
                             !.page = 1, !.hasMore = FALSE]
  IN [done EXCEPT !.isSearching = FALSE, !.loading = FALSE]

searchResolved(s, r, o) ==
  LET msg == searchFailure(s.variant, o)
      found == IF s.variant = "part0"
               THEN (IF o.hasResults THEN filterValid(o.results) ELSE << >>)
               ELSE o.results
      done == IF msg # Null
              THEN [s EXCEPT !.error = msg, !.searchResults = << >>,
                             !.suggestions = << >>]
              ELSE [s EXCEPT !.searchResults = found, !.suggestions = << >>,
                             !.featured = << >>, !.movies = << >>,
                             !.page = 1, !.hasMore = FALSE]
  IN [done EXCEPT !.isSearching = FALSE, !.loading = FALSE]

handleSearchChange(c, s, value) ==
  LET s1 == clearTimeout([s EXCEPT !.search = value], "typing") IN
  IF trim(value) = << >>
  THEN IF s.variant = "part0" THEN handleClearSearch(c, s1)
       ELSE loadCategory(c, [s1 EXCEPT !.searchResults = << >>, !.suggestions = << >>,
                                       !.isSearching = FALSE, !.page = 1,
                                       !.hasMore = TRUE])
  ELSE IF Len(trim(value)) >= 2
  THEN LET s2 == [s1 EXCEPT !.isSearching = TRUE] IN
       IF s.variant = "part0"
       THEN createDebounce(setTimeout(s2, "suggest", value, SuggestDelay, "typing", c),
                           value, SearchDelay, c)
       ELSE \* the second assignment to typingTimeoutRef.current drops the first id
            setTimeout(setTimeout(s2, "suggest", value, SuggestDelay, "none", c),
                       "search", value, SearchDelay, "typing", c)
  ELSE IF s.variant = "part0"
       THEN [s1 EXCEPT !.suggestions = << >>, !.searchResults = << >>,
                       !.isSearching = FALSE]
       ELSE s1

handleKeyDown(c, s, key) ==
  IF key = "Escape" THEN handleClearSearch(c, s)
  ELSE IF key = "Enter" /\ trim(c.search) # << >>
  THEN performSearch(c, IF s.variant = "part0" THEN clearTimeout(s, "typing") ELSE s,
                     c.search)
  ELSE s

handleSuggestionClick(c, s, item) ==
  IF s.variant = "part0" /\ ~isValidMediaItem(item) THEN s
  ELSE performSearch(c, [s EXCEPT !.search = item.title], item.title)

handleLoadMore(c, s) ==
  IF s.variant = "part0" /\ (c.loading \/ ~c.hasMore) THEN s
  ELSE IF c.category = "trending" THEN fetchTrending(c, s, c.page + 1, FALSE)
  ELSE fetchByCategory(c, s, c.category, c.page + 1, FALSE)

\* ------------------------------------------------------ render and effects
displayMovies(s) ==
  IF s.variant = "part0"
  THEN filterValid(IF trim(s.search) # << >> THEN s.searchResults ELSE s.movies)
  ELSE IF trim(s.search) # << >> THEN s.searchResults ELSE s.movies

\* A render condition without its !error conjunct.
gridRenderedDespiteError(s) == ~s.loading /\ Len(displayMovies(s)) > 0

\* The grid (and with it the cell lastMovieRef points to) is mounted.
gridRendered(s) == ~s.loading /\ s.error = Null /\ Len(displayMovies(s)) > 0

loadMoreRendered(s) == gridRendered(s) /\ trim(s.search) = << >> /\ s.hasMore

tryAgainRendered(s) == s.error # Null /\ ~s.loading

suggestionsRendered(s) == Len(s.suggestions) > 0 /\ Len(trim(s.search)) >= 2

categoriesRendered(s) == trim(s.search) = << >>

currentCategoryLabels(s) ==
  IF s.showTVSeriesPage THEN tvCategoryLabels ELSE movieCategoryLabels

\* Dependency list of the Load Data effect.
loadDataDeps(s) == <<s.category, s.showTVSeriesPage, s.selectedLanguage, s.search>>

\* Dependency list of the Intersection Observer effect (handleLoadMore's own
\* dependencies stand for its identity).
observerDeps(s) ==
  IF s.variant = "part0"
  THEN <<s.loading, s.hasMore, s.search, s.category, s.page,
         s.showTVSeriesPage, s.selectedLanguage, Len(s.movies)>>
  ELSE <<s.loading, s.hasMore, s.search, s.category, s.page,
         s.showTVSeriesPage, s.selectedLanguage, 0>>

\* The guard of the observer effect without its !hasMore test.
observerGuardIgnoresHasMore(s) ==
  ~(s.loading \/ trim(s.search) # << >>
    \/ (s.variant = "part0" /\ Len(s.movies) = 0))

observerGuard(s) ==
  ~(s.loading \/ ~s.hasMore \/ trim(s.search) # << >>
    \/ (s.variant = "part0" /\ Len(s.movies) = 0))

\* One commit: prev is the state of the previous render, s the state rendered now.
observerEffect(prev, s) ==
  [s EXCEPT !.observing =
     IF observerDeps(prev) # observerDeps(s)
     THEN observerGuard(s) /\ gridRendered(s)
     ELSE @ /\ gridRendered(s)]

loadDataEffect(prev, s) ==
  IF loadDataDeps(prev) = loadDataDeps(s) THEN s
  ELSE IF s.variant = "part0"
  THEN IF trim(s.search) = << >>
       THEN loadCategory(s, [s EXCEPT !.page = 1, !.hasMore = TRUE,
                                      !.searchResults = << >>, !.suggestions = << >>])
       ELSE s
  ELSE LET cleaned == clearTimeout(s, "typing") IN
       IF s.search = << >>
       THEN loadCategory(s, [cleaned EXCEPT !.page = 1, !.hasMore = TRUE])
       ELSE cleaned

\* The commits that follow a batch of state updates, until nothing changes.
afterRender(prev, s) ==
  LET s1 == observerEffect(prev, s)
      s2 == loadDataEffect(prev, s1)
  IN observerEffect(s1, s2)

\* ------------------------------------------------------------------ Init
initialState(v) ==
  [variant |-> v, API_KEY |-> TRUE, category |-> "trending",
   showTVSeriesPage |-> FALSE,
   selectedLanguage |-> "en", search |-> << >>, movies |-> << >>,
   featured |-> << >>, page |-> 1, hasMore |-> TRUE, loading |-> FALSE,
   error |-> Null, searchResults |-> << >>, suggestions |-> << >>,
   isSearching |-> FALSE, timers |-> << >>, inflight |-> << >>,
   observing |-> FALSE]

\* The first render followed by the mount run of the effects.
mounted(v) ==
  LET s0 == initialState(v)
      s1 == loadCategory(s0, [s0 EXCEPT !.page = 1, !.hasMore = TRUE])
  IN observerEffect(s0, s1)

AppInit ==
  \E v \in Variants :
    LET s == mounted(v) IN
      /\ variant = s.variant
      /\ API_KEY = s.API_KEY
      /\ category = s.category
      /\ showTVSeriesPage = s.showTVSeriesPage
      /\ selectedLanguage = s.selectedLanguage
      /\ search = s.search
      /\ movies = s.movies
      /\ featured = s.featured
      /\ page = s.page
      /\ hasMore = s.hasMore
      /\ loading = s.loading
      /\ error = s.error
      /\ searchResults = s.searchResults
      /\ suggestions = s.suggestions
      /\ isSearching = s.isSearching
      /\ timers = s.timers
      /\ inflight = s.inflight
      /\ observing = s.observing
      /\ events = 0

\* The API Validation effect.
apiValidation(s) ==
  IF s.variant = "part0" /\ ~s.API_KEY THEN [s EXCEPT !.error = MsgConfig] ELSE s

\* The first render and the mount run of the effects when the build has no
\* API key.
mountedWithoutKey(v) ==
  LET s0 == [initialState(v) EXCEPT !.API_KEY = FALSE]
      s1 == apiValidation(s0)
      s2 == loadCategory(s1, [s1 EXCEPT !.page = 1, !.hasMore = TRUE])
  IN observerEffect(s0, s2)

\* App as mounted, with or without an API key in the build.
AppInitConfig ==
  \E v \in Variants, k \in BOOLEAN :
    LET s == IF k THEN mounted(v) ELSE mountedWithoutKey(v) IN
      /\ variant = s.variant
      /\ API_KEY = s.API_KEY
      /\ category = s.category
      /\ showTVSeriesPage = s.showTVSeriesPage
      /\ selectedLanguage = s.selectedLanguage
      /\ search = s.search
      /\ movies = s.movies
      /\ featured = s.featured
      /\ page = s.page
      /\ hasMore = s.hasMore
      /\ loading = s.loading
      /\ error = s.error
      /\ searchResults = s.searchResults
      /\ suggestions = s.suggestions
      /\ isSearching = s.isSearching
      /\ timers = s.timers
      /\ inflight = s.inflight
      /\ observing = s.observing
      /\ events = 0

\* App as mounted; no separately studied component instance exists.
Init == AppInit /\ images = << >> /\ gateway = << >> /\ session = << >>
  /\ favs = << >>
  /\ watch = << >>
  /\ modal = << >>
  /\ urlCall = << >>

\* --------------------------------------------------------------- actions
withinBounds(s) == Len(s.inflight) <= MaxInflight /\ Len(s.timers) <= MaxTimers

\* The state updates s of one callback are committed and the effects run.
Apply(s) ==
  LET t == afterRender(Cur, s)
  IN withinBounds(t) /\ Commit(t) /\ UNCHANGED partVars

\* A callback started by the user.
User(s) == events < MaxEvents /\ events' = events + 1 /\ Apply(s)

\* A callback started by a timer or a response.
System(s) == events' = events /\ Apply(s)

SearchChange(value) ==
  /\ value # search
  /\ User(handleSearchChange(Cur, Cur, value))

KeyDown(key) == User(handleKeyDown(Cur, Cur, key))

ClearSearchClick ==
  /\ search # << >>
  /\ User(handleClearSearch(Cur, Cur))

SuggestionClick(i) ==
  /\ suggestionsRendered(Cur)
  /\ i \in 1..Len(suggestions)
  /\ User(handleSuggestionClick(Cur, Cur, suggestions[i]))

LoadMoreClick ==
  /\ loadMoreRendered(Cur)
  /\ page < MaxPage
  /\ User(handleLoadMore(Cur, Cur))

Intersect ==
  /\ observing
  /\ page < MaxPage
  /\ User(handleLoadMore(Cur, Cur))

SelectCategory(cat) ==
  /\ categoriesRendered(Cur)
  /\ cat \in currentCategoryLabels(Cur)
  /\ User(IF variant = "part0"
          THEN handleClearSearch(Cur, [Cur EXCEPT !.category = cat])
          ELSE [Cur EXCEPT !.category = cat, !.page = 1, !.hasMore = TRUE,
                           !.search = << >>, !.searchResults = << >>,
                           !.suggestions = << >>])

ModeTab(tv) ==
  LET s == [Cur EXCEPT !.showTVSeriesPage = tv,
                       !.category = IF tv THEN "popular_tv" ELSE "trending"]
  IN User(IF variant = "part0" THEN handleClearSearch(Cur, s)
          ELSE [s EXCEPT !.search = << >>])

LogoClick ==
  User(IF variant = "part0"
       THEN [handleClearSearch(Cur, Cur) EXCEPT !.category = "trending"]
       ELSE [Cur EXCEPT !.search = << >>, !.searchResults = << >>,
                        !.category = "trending"])

LanguageChange(lang) ==
  /\ variant = "part0"
  /\ lang # selectedLanguage
  /\ User([Cur EXCEPT !.selectedLanguage = lang])

TryAgain ==
  /\ tryAgainRendered(Cur)
  /\ User(IF variant = "part0" THEN loadCategory(Cur, Cur)
          ELSE fetchTrending(Cur, Cur, EventObj, FALSE))

\* 100 ms pass; a timer that is due fires before more time passes.
Tick ==
  /\ timers # << >>
  /\ \A i \in 1..Len(timers) : timers[i].left > 0
  /\ timers' = [i \in 1..Len(timers) |-> [timers[i] EXCEPT !.left = @ - 1]]
  /\ UNCHANGED <<variant, API_KEY, category, showTVSeriesPage, selectedLanguage, search,
                 movies, featured, page, hasMore, loading, error, searchResults,
                 suggestions, isSearching, inflight, observing, events>>
  /\ UNCHANGED partVars

timerClosure(t) ==
  [Cur EXCEPT !.showTVSeriesPage = t.tv, !.selectedLanguage = t.lang,
              !.category = t.category]

TimerFires(i) ==
  /\ i \in 1..Len(timers)
  /\ timers[i].left = 0
  /\ LET t == timers[i]
         s == [Cur EXCEPT !.timers = removeAt(@, i)]
     IN System(IF t.kind = "suggest"
               THEN fetchSearchSuggestions(timerClosure(t), s, t.value)
               ELSE performSearch(timerClosure(t), s, t.value))

Resolve(i, o) ==
  /\ i \in 1..Len(inflight)
  /\ ~API_KEY => o.status # 200     \* the upstream refuses a request without key
  /\ LET r == inflight[i]
         s == [Cur EXCEPT !.inflight = removeAt(@, i)]
     IN System(IF r.kind = "page" THEN pageResolved(s, r, o)
               ELSE IF r.kind = "suggest" THEN suggestResolved(s, r, o)
               ELSE searchResolved(s, r, o))

Next ==
  \/ \E value \in Queries : SearchChange(value)
  \/ \E key \in {"Enter", "Escape"} : KeyDown(key)
  \/ ClearSearchClick
  \/ \E i \in 1..MaxSuggestions : SuggestionClick(i)
  \/ LoadMoreClick
  \/ Intersect
  \/ \E cat \in movieCategoryLabels \cup tvCategoryLabels : SelectCategory(cat)
  \/ \E tv \in BOOLEAN : ModeTab(tv)
  \/ LogoClick
  \/ \E lang \in Languages : LanguageChange(lang)
  \/ TryAgain
  \/ Tick
  \/ \E i \in 1..MaxTimers : TimerFires(i)
  \/ \E i \in 1..MaxInflight, o \in Outcomes : Resolve(i, o)

Spec == Init /\ [][Next]_vars

\* The same program started with or without an API key.
InitConfig == AppInitConfig /\ images = << >> /\ gateway = << >> /\ session = << >>
  /\ favs = << >>
  /\ watch = << >>
  /\ modal = << >>
  /\ urlCall = << >>

SpecConfig == InitConfig /\ [][Next]_vars

\* ======================================================== OptimizedImage
\* One record per instance: its props (lazy, priority, whether src yields an
\* image URL), its isVisible state, whether its IntersectionObserver is
\* connected, the entries the observer has queued (isIntersecting of each),
\* whether the observed node is within the root margin, and how often the
\* observer callback has called setIsVisible(true).
\* version: "jsx" is src/src/components/OptimizedImage.jsx, "appjs" the
\* component in src/src/App.js, "part0" the one in src/unnamed/part_000.
ImageVersions == {"jsx", "appjs", "part0"}

\* useState(!lazy || priority)
initialVisible(lazy, priority) == ~lazy \/ priority

\* The lazy-loading effect as if it did not test isVisible.
imageEffectGuardIgnoresVisible(im) ==
  ~im.lazy \/ im.priority \/ (im.version # "jsx" /\ ~im.hasUrl)

\* The early return of the lazy-loading effect (isClient is true once mounted).
imageEffectGuard(im) ==
  ~im.lazy \/ im.priority \/ im.isVisible \/ (im.version # "jsx" /\ ~im.hasUrl)

\* One run of the lazy-loading effect: the cleanup of the previous run
\* disconnects, then a new observer observes imgRef.current and queues the
\* initial entry for it.
imageEffect(im) ==
  IF imageEffectGuard(im) THEN [im EXCEPT !.observing = FALSE, !.entries = << >>]
  ELSE [im EXCEPT !.observing = TRUE, !.entries = <<im.inView>>]

\* The instance after its first render and the mount run of its effects.
OptimizedImage(version, lazy, priority, hasUrl, inView) ==
  imageEffect([version |-> version, lazy |-> lazy, priority |-> priority,
               hasUrl |-> hasUrl, isVisible |-> initialVisible(lazy, priority),
               observing |-> FALSE, entries |-> << >>, inView |-> inView,
               calls |-> 0, mounted |-> TRUE])

\* ([entry]) => { if (entry.isIntersecting) { setIsVisible(true); disconnect } }
\* followed by the re-render and the effect run that the state change causes.
observerCallback(im) ==
  IF Head(im.entries)
  THEN imageEffect([im EXCEPT !.isVisible = TRUE, !.observing = FALSE,
                              !.entries = << >>, !.calls = @ + 1])
  ELSE [im EXCEPT !.entries = << >>]

ImageInit ==
  images \in [1..NImages ->
               {OptimizedImage(v, l, p, u, w) :
                  v \in ImageVersions, l \in BOOLEAN, p \in BOOLEAN,
                  u \in BOOLEAN, w \in BOOLEAN}]

\* The observed node enters or leaves the root margin (scrolling, layout).
ImgScroll(k) ==
  /\ images[k].mounted
  /\ Len(images[k].entries) < MaxEntries
  /\ images' = [images EXCEPT ![k] =
       [@ EXCEPT !.inView = ~@,
                 !.entries = IF images[k].observing
                             THEN Append(@, ~images[k].inView) ELSE @]]
  /\ UNCHANGED <<appVars, gateway, session, favs, watch, modal, urlCall>>

\* The browser delivers the queued entries to the observer callback.
ImgDeliver(k) ==
  /\ images[k].mounted
  /\ images[k].observing
  /\ images[k].entries # << >>
  /\ images[k].calls < MaxCalls
  /\ images' = [images EXCEPT ![k] = observerCallback(@)]
  /\ UNCHANGED <<appVars, gateway, session, favs, watch, modal, urlCall>>

\* The instance is unmounted: the effect cleanup disconnects the observer.
ImgUnmount(k) ==
  /\ images[k].mounted
  /\ images' = [images EXCEPT ![k] =
       [@ EXCEPT !.mounted = FALSE, !.observing = FALSE, !.entries = << >>]]
  /\ UNCHANGED <<appVars, gateway, session, favs, watch, modal, urlCall>>

NextImage ==
  \E k \in 1..NImages : ImgScroll(k) \/ ImgDeliver(k) \/ ImgUnmount(k)

InitImage == AppInit /\ ImageInit /\ gateway = << >> /\ session = << >>
  /\ favs = << >>
  /\ watch = << >>
  /\ modal = << >>
  /\ urlCall = << >>

SpecImage == InitImage /\ [][NextImage]_vars

\* ============================================================== endpoints
\* The URL a page fetch builds, as the record of its parts.  version: "appjs"
\* is src/src/App.js, "part0" the first App of src/unnamed/part_000, "v3" the
\* component at src/unnamed/part_000 3870ff that takes the media type as a prop.
GatewayVersions == {"appjs", "part0", "v3"}

genreMap ==
  [action |-> 28, comedy |-> 35, drama |-> 18, horror |-> 27, romance |-> 10749,
   thriller |-> 53, scifi |-> 878, animation |-> 16]

\* A value of tvCatMap is a list name or a genre id; genre 0 stands for a
\* value that is not a number.
tvCatMap ==
  [popular_tv |-> [list |-> "popular", genre |-> 0],
   top_rated_tv |-> [list |-> "top_rated", genre |-> 0],
   on_the_air |-> [list |-> "on_the_air", genre |-> 0],
   airing_today |-> [list |-> "airing_today", genre |-> 0],
   tv_action |-> [list |-> "", genre |-> 10759],
   tv_comedy |-> [list |-> "", genre |-> 35],
   tv_drama |-> [list |-> "", genre |-> 18],
   tv_scifi |-> [list |-> "", genre |-> 10765],
   tv_animation |-> [list |-> "", genre |-> 16],
   tagalog_tv |-> [list |-> "tagalog_tv", genre |-> 0],
   tv_mystery |-> [list |-> "", genre |-> 9648],
   tv_reality |-> [list |-> "", genre |-> 10764],
   tv_documentary |-> [list |-> "", genre |-> 99]]

\* tvCatMap[cat]: a missing key reads as undefined, which a template literal
\* prints as "undefined".
tvCat(cat) ==
  IF cat \in DOMAIN tvCatMap THEN tvCatMap[cat]
  ELSE [list |-> "undefined", genre |-> 0]

NoEndpoint == [shape |-> "none"]

discover(media, genre, original_language, region, pageNum, language) ==
  [shape |-> "discover", media |-> media, list |-> "", with_genres |-> genre,
   with_original_language |-> original_language, region |-> region,
   page |-> pageNum, language |-> language]

canonicalList(media, list, pageNum, language) ==
  [shape |-> "list", media |-> media, list |-> list, with_genres |-> 0,
   with_original_language |-> "", region |-> "", page |-> pageNum,
   language |-> language]

\* The URL built by fetchTrending.
trendingEndpoint(version, tv, pageNum, lang) ==
  [shape |-> "trending", media |-> IF tv THEN "tv" ELSE "movie", list |-> "",
   with_genres |-> 0, with_original_language |-> "", region |-> "",
   page |-> pageNum, language |-> IF version = "part0" THEN lang ELSE ""]

\* The last branch of the TV half of fetchByCategory.
tvList(version, cat, pageNum, language) ==
  IF version = "v3"
  THEN canonicalList("tv", IF cat \in {"upcoming", "now_playing"} THEN "on_the_air"
                           ELSE cat, pageNum, language)
  ELSE canonicalList("tv", tvCat(cat).list, pageNum, language)

\* The URL built by fetchByCategory.
categoryEndpoint(version, tv, cat, pageNum, lang) ==
  LET language == IF version = "part0" THEN lang ELSE "" IN
  IF version = "v3"
  THEN IF cat = "filipino"
       THEN discover(IF tv THEN "tv" ELSE "movie", 0, "tl",
                     IF tv THEN "" ELSE "PH", pageNum, language)
       ELSE IF cat \in DOMAIN genreMap
       THEN discover(IF tv THEN "tv" ELSE "movie", genreMap[cat], "", "",
                     pageNum, language)
       ELSE IF ~tv THEN canonicalList("movie", cat, pageNum, language)
       ELSE tvList(version, cat, pageNum, language)
  ELSE IF tv
  THEN IF tvCat(cat).genre # 0
       THEN discover("tv", tvCat(cat).genre, "", "", pageNum, language)
       ELSE IF tvCat(cat).list = "tagalog_tv"
       THEN discover("tv", 0, "tl", "", pageNum, language)
       ELSE tvList(version, cat, pageNum, language)
  ELSE IF cat = "filipino"
       THEN discover("movie", 0, "tl", "PH", pageNum, language)
       ELSE IF cat \in DOMAIN genreMap
       THEN discover("movie", genreMap[cat], "", "", pageNum, language)
       ELSE canonicalList("movie", cat, pageNum, language)

\* category === "trending" ? fetchTrending() : fetchByCategory(category)
gatewayEndpoint(version, tv, cat, pageNum, lang) ==
  IF cat = "trending" THEN trendingEndpoint(version, tv, pageNum, lang)
  ELSE categoryEndpoint(version, tv, cat, pageNum, lang)

\* The category strings tried: every key the code knows and two it does not.
CategoryStrings ==
  DOMAIN genreMap \cup DOMAIN tvCatMap
  \cup {"trending", "popular", "top_rated", "upcoming", "now_playing", "filipino",
        "bogus", "undefined"}

GatewayInit ==
  gateway \in [version : GatewayVersions, tv : BOOLEAN, cat : CategoryStrings,
               pageNum : 1..MaxPage, lang : Languages, endpoint : {NoEndpoint}]

\* The page fetch builds its URL.
GatewayFetch ==
  /\ gateway.endpoint = NoEndpoint
  /\ gateway' = [gateway EXCEPT !.endpoint =
        gatewayEndpoint(gateway.version, gateway.tv, gateway.cat,
                        gateway.pageNum, gateway.lang)]
  /\ UNCHANGED <<appVars, images, session, favs, watch, modal, urlCall>>

NextGateway == GatewayFetch

InitGateway == AppInit /\ images = << >> /\ GatewayInit /\ session = << >>
  /\ favs = << >>
  /\ watch = << >>
  /\ modal = << >>
  /\ urlCall = << >>

SpecGateway == InitGateway /\ [][NextGateway]_vars

\* ============================================================ preferences
\* The two effects under "Local Storage for Preferences" of the App versions
\* at src/unnamed/part_000 2280ff and 3609ff (the latter keeps the media type
\* as type = 'movie' | 'tv' instead of showTVSeriesPage).  session holds the
\* three persisted state values and store, the content of localStorage under
\* 'moviehouse_prefs': absent, text that JSON.parse rejects, or a blob.
MaxSessions == 3

absent == [kind |-> "absent", showTVSeriesPage |-> FALSE, category |-> "",
           lastSearch |-> << >>]

corrupt == [absent EXCEPT !.kind = "corrupt"]

\* localStorage.setItem('moviehouse_prefs', JSON.stringify(preferences))
savePreferences(s) ==
  [s EXCEPT !.store = [kind |-> "json", showTVSeriesPage |-> s.showTVSeriesPage,
                       category |-> s.category, lastSearch |-> s.search]]

\* The read effect: getItem, JSON.parse, and the three setters.
loadPreferences(s) ==
  IF s.store.kind # "json" THEN s
  ELSE [s EXCEPT !.showTVSeriesPage = s.store.showTVSeriesPage,
                 !.category = IF s.store.category = "" THEN "trending"
                              ELSE s.store.category,
                 !.search = IF trim(s.store.lastSearch) # << >>
                            THEN s.store.lastSearch ELSE @]

\* The write effect runs after a render in which one of its dependencies
\* differs from the previous render.
savePreferencesEffect(prev, s) ==
  IF <<prev.showTVSeriesPage, prev.category, prev.search>>
     = <<s.showTVSeriesPage, s.category, s.search>>
  THEN s ELSE savePreferences(s)

\* A page load over the given storage: the first render with the default
\* state, the mount run of the effects in the order they are declared (write,
\* then read), and the render the read effect's setters cause.
startup(store, n) ==
  LET s0 == [store |-> store, showTVSeriesPage |-> FALSE, category |-> "trending",
             search |-> << >>, sessions |-> n]
      s1 == savePreferences(s0)
      s2 == loadPreferences(s1)
  IN savePreferencesEffect(s0, s2)

PrefInit ==
  \E store \in {absent, corrupt} \cup
               {[kind |-> "json", showTVSeriesPage |-> tv, category |-> cat,
                 lastSearch |-> q] :
                  tv \in BOOLEAN, cat \in {"popular", "popular_tv"},
                  q \in {qEmpty, qBat}} :
    session = startup(store, 1)

PrefChange(s) ==
  /\ session' = savePreferencesEffect(session, s)
  /\ UNCHANGED <<appVars, images, gateway, favs, watch, modal, urlCall>>

PrefModeTab(tv) ==
  /\ tv \in BOOLEAN
  /\ PrefChange([session EXCEPT !.showTVSeriesPage = tv,
                                !.category = IF tv THEN "popular_tv" ELSE "trending",
                                !.search = << >>])

PrefSelectCategory(cat) ==
  /\ cat \in (IF session.showTVSeriesPage THEN tvCategoryLabels
               ELSE movieCategoryLabels)
  /\ PrefChange([session EXCEPT !.category = cat, !.search = << >>])

PrefSearchChange(value) ==
  /\ value # session.search
  /\ PrefChange([session EXCEPT !.search = value])

\* The page is closed and opened again.
PrefReload ==
  /\ session.sessions < MaxSessions
  /\ session' = startup(session.store, session.sessions + 1)
  /\ UNCHANGED <<appVars, images, gateway, favs, watch, modal, urlCall>>

NextPrefs ==
  \/ \E tv \in BOOLEAN : PrefModeTab(tv)
  \/ \E cat \in movieCategoryLabels \cup tvCategoryLabels : PrefSelectCategory(cat)
  \/ \E value \in Queries : PrefSearchChange(value)
  \/ PrefReload

InitPrefs == AppInit /\ images = << >> /\ gateway = << >> /\ PrefInit
  /\ favs = << >>
  /\ watch = << >>
  /\ modal = << >>
  /\ urlCall = << >>

SpecPrefs == InitPrefs /\ [][NextPrefs]_vars

\* ============================================================== favorites
\* The favorites list of the first App of src/unnamed/part_000 and the heart
\* button of MovieItem.  favs holds the list, the media mode, and for every
\* (id, media type) the number of toggleFavorite calls made for it so far.
MaxToggles == 4

GridItems == {itemA, itemB, itemB2, itemBad}

mediaType(tv) == IF tv THEN "tv" ELSE "movie"

FavoriteKeys == {<<item.id, type>> : item \in GridItems, type \in {"movie", "tv"}}

isSameFavorite(fav, item, tv) == fav.id = item.id /\ fav.type = mediaType(tv)

\* A toggle that never finds the item in the list.
toggleFavoriteAlwaysAdds(prev, item, tv) ==
  IF ~isValidMediaItem(item) THEN prev
  ELSE Append(prev, [id |-> item.id, title |-> item.title, type |-> mediaType(tv)])

\* The updater toggleFavorite hands to setFavorites, with its guard.
toggleFavorite(prev, item, tv) ==
  IF ~isValidMediaItem(item) THEN prev
  ELSE IF \E i \in 1..Len(prev) : isSameFavorite(prev[i], item, tv)
  THEN SelectSeq(prev, LAMBDA fav : ~isSameFavorite(fav, item, tv))
  ELSE Append(prev, [id |-> item.id, title |-> item.title, type |-> mediaType(tv)])

isItemFavorite(s, item) ==
  /\ isValidMediaItem(item)
  /\ \E i \in 1..Len(s.favorites) :
       isSameFavorite(s.favorites[i], item, s.showTVSeriesPage)

FavInit ==
  favs = [showTVSeriesPage |-> FALSE, favorites |-> << >>,
          calls |-> [k \in FavoriteKeys |-> 0]]

totalCalls(s) ==
  LET RECURSIVE sum(_)
      sum(K) == IF K = {} THEN 0
                ELSE LET k == CHOOSE x \in K : TRUE IN s.calls[k] + sum(K \ {k})
  IN sum(FavoriteKeys)

\* MovieItem.handleFavoriteClick: the heart button of one grid cell.
FavoriteClick(item) ==
  /\ totalCalls(favs) < MaxToggles
  /\ favs' =
       IF isValidMediaItem(item)
       THEN [favs EXCEPT
               !.favorites = toggleFavorite(@, item, favs.showTVSeriesPage),
               !.calls[<<item.id, mediaType(favs.showTVSeriesPage)>>] = @ + 1]
       ELSE favs
  /\ UNCHANGED <<appVars, images, gateway, session, watch, modal, urlCall>>

\* The Movies / TV Series tabs.
FavModeTab(tv) ==
  /\ favs' = [favs EXCEPT !.showTVSeriesPage = tv]
  /\ UNCHANGED <<appVars, images, gateway, session, watch, modal, urlCall>>

NextFavorites ==
  \/ \E item \in GridItems : FavoriteClick(item)
  \/ \E tv \in BOOLEAN : FavModeTab(tv)

InitFavorites == AppInit /\ images = << >> /\ gateway = << >> /\ session = << >>
  /\ FavInit
  /\ watch = << >>
  /\ modal = << >>
  /\ urlCall = << >>

SpecFavorites == InitFavorites /\ [][NextFavorites]_vars

\* ================================================================ watching
\* The player and the TV details modal of the first App of
\* src/unnamed/part_000.  A state value that is null or one object is the empty
\* sequence or a sequence of one element.
WatchItems == {itemA, itemB, itemC, itemBad}

episode1 == [id |-> 11, season_number |-> 1, episode_number |-> 1]
episode2 == [id |-> 12, season_number |-> 1, episode_number |-> 2]
episodeBad == [id |-> 0, season_number |-> 1, episode_number |-> 3]
EpisodeInputs == {episode1, episode2, episodeBad}

isValidEpisode(episode) == episode.id # 0

\* The player branch of the render is taken.
playerRendered(w) == w.watchUrl # << >>

\* The hero and the grid, whose buttons call startWatching, are rendered.
listRendered(w) == ~playerRendered(w) /\ ~w.showTVDetails

\* TVShowDetailsModal returns its dialog.
modalRendered(w) == w.showTVDetails /\ w.selectedTVShow # << >>

startWatching(w, item) ==
  IF ~isValidMediaItem(item) THEN w
  ELSE IF w.showTVSeriesPage
  THEN [w EXCEPT !.selectedTVShow = <<item>>, !.showTVDetails = TRUE]
  ELSE [w EXCEPT !.watchUrl = <<[embed |-> "movie", id |-> item.id,
                                 season |-> 0, episode |-> 0]>>]

\* handleEpisodeSelect without its setShowTVDetails(false).
handleEpisodeSelectKeepsModal(w, episode) ==
  IF w.selectedTVShow = << >> \/ ~isValidEpisode(episode) THEN w
  ELSE [w EXCEPT !.watchUrl = <<[embed |-> "tv", id |-> w.selectedTVShow[1].id,
                                 season |-> episode.season_number,
                                 episode |-> episode.episode_number]>>,
                 !.lastSelectedEpisode = w.selectedTVShow]

handleEpisodeSelect(w, episode) ==
  IF w.selectedTVShow = << >> \/ ~isValidEpisode(episode) THEN w
  ELSE [w EXCEPT !.watchUrl = <<[embed |-> "tv", id |-> w.selectedTVShow[1].id,
                                 season |-> episode.season_number,
                                 episode |-> episode.episode_number]>>,
                 !.showTVDetails = FALSE,
                 !.selectedTVShow = << >>,
                 !.lastSelectedEpisode = w.selectedTVShow]

handleBackFromWatch(w) ==
  LET back == [w EXCEPT !.watchUrl = << >>] IN
  IF w.showTVSeriesPage /\ w.lastSelectedEpisode # << >>
  THEN [back EXCEPT !.selectedTVShow = w.lastSelectedEpisode, !.showTVDetails = TRUE]
  ELSE IF w.showTVSeriesPage /\ w.selectedTVShow # << >>
  THEN [back EXCEPT !.showTVDetails = TRUE]
  ELSE back

\* onClose of TVShowDetailsModal.
modalClose(w) ==
  [w EXCEPT !.showTVDetails = FALSE, !.selectedTVShow = << >>,
            !.lastSelectedEpisode = << >>]

\* The part of the logo's onClick that concerns the player and the modal.
logoClick(w) ==
  [w EXCEPT !.watchUrl = << >>, !.showTVDetails = FALSE, !.selectedTVShow = << >>,
            !.lastSelectedEpisode = << >>]

WatchInit ==
  watch = [showTVSeriesPage |-> FALSE, watchUrl |-> << >>, selectedTVShow |-> << >>,
           showTVDetails |-> FALSE, lastSelectedEpisode |-> << >>]

WatchStep(w) ==
  /\ watch' = w
  /\ UNCHANGED <<appVars, images, gateway, session, favs, modal, urlCall>>

WatchStart(item) ==
  /\ listRendered(watch)
  /\ WatchStep(startWatching(watch, item))

WatchEpisodeSelect(episode) ==
  /\ modalRendered(watch)
  /\ WatchStep(handleEpisodeSelect(watch, episode))

WatchBack ==
  /\ playerRendered(watch)
  /\ WatchStep(handleBackFromWatch(watch))

WatchModalClose ==
  /\ modalRendered(watch)
  /\ WatchStep(modalClose(watch))

WatchLogoClick == WatchStep(logoClick(watch))

WatchModeTab(tv) == WatchStep([watch EXCEPT !.showTVSeriesPage = tv])

NextWatch ==
  \/ \E item \in WatchItems : WatchStart(item)
  \/ \E episode \in EpisodeInputs : WatchEpisodeSelect(episode)
  \/ WatchBack
  \/ WatchModalClose
  \/ WatchLogoClick
  \/ \E tv \in BOOLEAN : WatchModeTab(tv)

InitWatch == AppInit /\ images = << >> /\ gateway = << >> /\ session = << >>
  /\ favs = << >> /\ WatchInit
  /\ modal = << >>
  /\ urlCall = << >>

SpecWatch == InitWatch /\ [][NextWatch]_vars

\* ===================================================== TVShowDetailsModal
\* The modal of src/unnamed/part_000 197ff.  It stays mounted while it is
\* closed, so its state outlives the show it was loaded for.  An episode of
\* the upstream carries the show and the season it belongs to.
MaxPending == 2

ShowIds == {1, 2}

MsgSeasons == "Failed to load seasons. Please try again."
MsgEpisodes == "Failed to load episodes. Please try again."

\* /3/tv/{id}: the seasons of a show, the specials (season 0) first.
upstreamSeasons(showId) == IF showId = 1 THEN <<0, 1, 2>> ELSE <<0, 1>>

\* /3/tv/{id}/season/{n}: one episode isValidEpisode accepts and one it rejects.
upstreamEpisodes(showId, seasonNumber) ==
  <<[id |-> 100 * showId + 10 * seasonNumber + 1, show_id |-> showId,
     season_number |-> seasonNumber, episode_number |-> 1],
    [id |-> 0, show_id |-> showId, season_number |-> seasonNumber,
     episode_number |-> 2]>>

\* fetchEpisodes up to its await; chained: fetchSeasons is awaiting this call.
fetchEpisodes(m, showId, seasonNumber, chained) ==
  [m EXCEPT !.loading.episodes = TRUE,
            !.error.episodes = Null,
            !.pending = Append(@, [kind |-> "episodes", show |-> showId,
                                   season |-> seasonNumber, chained |-> chained])]

\* The effect on [show, isOpen, fetchEpisodes], up to the await of fetchSeasons.
fetchSeasonsEffect(prev, m) ==
  IF <<prev.show, prev.isOpen>> = <<m.show, m.isOpen>> THEN m
  ELSE IF m.show = << >> \/ ~m.isOpen THEN m
  ELSE [m EXCEPT !.loading.seasons = TRUE,
                 !.error.seasons = Null,
                 !.pending = Append(@, [kind |-> "seasons", show |-> m.show[1],
                                        season |-> 0, chained |-> FALSE])]

\* The rest of fetchSeasons after its fetch.
seasonsResolved(m, r, ok) ==
  IF ~ok
  THEN [m EXCEPT !.error.seasons = MsgSeasons, !.seasons = << >>,
                 !.loading.seasons = FALSE]
  ELSE LET validSeasons == SelectSeq(upstreamSeasons(r.show), LAMBDA n : n > 0)
           m1 == [m EXCEPT !.seasons = validSeasons]
       IN IF validSeasons # << >>
          THEN fetchEpisodes(m1, r.show, validSeasons[1], TRUE)
          ELSE [m1 EXCEPT !.loading.seasons = FALSE]

\* The rest of fetchEpisodes after its fetch, and the finally block of the
\* fetchSeasons call that awaited it.
episodesResolved(m, r, ok) ==
  LET done ==
        IF ok
        THEN [m EXCEPT !.episodes = SelectSeq(upstreamEpisodes(r.show, r.season),
                                              isValidEpisode),
                       !.selectedSeason = r.season]
        ELSE [m EXCEPT !.error.episodes = MsgEpisodes, !.episodes = << >>]
  IN [done EXCEPT !.loading.episodes = FALSE,
                  !.loading.seasons = IF r.chained THEN FALSE ELSE @]

\* The dialog is returned by the render.
dialogRendered(m) == m.isOpen /\ m.show # << >>

seasonButtonsRendered(m) ==
  dialogRendered(m) /\ ~m.loading.seasons /\ m.error.seasons = Null
  /\ m.seasons # << >>

episodesRendered(m) ==
  dialogRendered(m) /\ ~m.loading.episodes /\ m.error.episodes = Null
  /\ m.episodes # << >>

ModalInit ==
  modal = [show |-> << >>, isOpen |-> FALSE, seasons |-> << >>, selectedSeason |-> 1,
           episodes |-> << >>,
           loading |-> [seasons |-> FALSE, episodes |-> FALSE],
           error |-> [seasons |-> Null, episodes |-> Null],
           pending |-> << >>]

ModalStep(m) ==
  /\ Len(m.pending) <= MaxPending
  /\ modal' = m
  /\ UNCHANGED <<appVars, images, gateway, session, favs, watch, urlCall>>

\* App opens the modal for a show (startWatching, handleBackFromWatch).
ModalOpen(showId) ==
  /\ ~modal.isOpen
  /\ ModalStep(fetchSeasonsEffect(modal, [modal EXCEPT !.show = <<showId>>,
                                                       !.isOpen = TRUE]))

\* App closes it (onClose, handleEpisodeSelect, logo).
ModalClose ==
  /\ modal.isOpen
  /\ ModalStep(fetchSeasonsEffect(modal, [modal EXCEPT !.show = << >>,
                                                       !.isOpen = FALSE]))

SeasonClick(k) ==
  /\ seasonButtonsRendered(modal)
  /\ k \in 1..Len(modal.seasons)
  /\ ModalStep(fetchEpisodes(modal, modal.show[1], modal.seasons[k], FALSE))

ModalResolve(i, ok) ==
  /\ i \in 1..Len(modal.pending)
  /\ LET r == modal.pending[i]
         m == [modal EXCEPT !.pending = removeAt(@, i)]
     IN ModalStep(IF r.kind = "seasons" THEN seasonsResolved(m, r, ok)
                  ELSE episodesResolved(m, r, ok))

NextModal ==
  \/ \E showId \in ShowIds : ModalOpen(showId)
  \/ ModalClose
  \/ \E k \in 1..2 : SeasonClick(k)
  \/ \E i \in 1..MaxPending, ok \in BOOLEAN : ModalResolve(i, ok)

InitModal == AppInit /\ images = << >> /\ gateway = << >> /\ session = << >>
  /\ favs = << >> /\ watch = << >> /\ ModalInit
  /\ urlCall = << >>

SpecModal == InitModal /\ [][NextModal]_vars

\* ================================================== getOptimizedImageUrl
\* src/unnamed/part_001.  A string is the sequence of its lexical pieces: a
\* piece of text, or a run of digits with its value, so that template
\* literals, replace('w', '') and the multiplication can be carried out.
DefaultQuality == 80

txt(s) == [s |-> s, n |-> 0]
num(n) == [s |-> "#", n |-> n]

TMDB_IMAGE_BASE == <<txt("https://image.tmdb.org/t/p/")>>
PLACEHOLDER_IMAGE == <<txt("https://via.placeholder.com/300x450/111/666?text=No+Poster")>>

imageSizes ==
  [thumbnail |-> <<txt("w"), num(92)>>,
   small |-> <<txt("w"), num(154)>>,
   card |-> <<txt("w"), num(342)>>,
   medium |-> <<txt("w"), num(500)>>,
   large |-> <<txt("w"), num(780)>>,
   xlarge |-> <<txt("w"), num(1280)>>,
   original |-> <<txt("original")>>]

PresetNames == DOMAIN imageSizes

\* A property that is not passed.
Undefined == << >>

\* size.replace('w', ''): the first "w" is dropped.
replaceW(size) ==
  IF \E i \in 1..Len(size) : size[i] = txt("w")
  THEN LET i == CHOOSE k \in 1..Len(size) :
                  size[k] = txt("w") /\ \A j \in 1..(k - 1) : size[j] # txt("w")
       IN removeAt(size, i)
  ELSE size

\* string * 2: the string converted to a number, NaN if it is not one.
timesTwo(str) ==
  IF Len(str) = 1 /\ str[1].s = "#" THEN <<num(str[1].n * 2)>>
  ELSE IF str = << >> THEN <<num(0)>>
  ELSE <<txt("NaN")>>

queryWebp(quality) == <<txt("?format=webp&quality="), num(quality)>>

getOptimizedImageUrl(path, options) ==
  IF path = << >> THEN PLACEHOLDER_IMAGE
  ELSE LET size == IF options.size = Undefined THEN imageSizes.card ELSE options.size
           actualSize == IF options.retina /\ size # <<txt("original")>>
                         THEN timesTwo(replaceW(size)) ELSE size
           sizePrefix == IF size = <<txt("original")>> THEN <<txt("original")>>
                         ELSE <<txt("w")>> \o actualSize
           baseUrl == TMDB_IMAGE_BASE \o sizePrefix \o path
       IN IF options.format = "webp" /\ size # <<txt("original")>>
          THEN baseUrl \o queryWebp(DefaultQuality)
          ELSE baseUrl

Paths == {<< >>, <<txt("/a.jpg")>>, <<txt("/b.jpg")>>}

\* The size argument: a preset by value, a preset by name (the size prop of
\* OptimizedImage), or none.
SizeArguments ==
  {imageSizes[name] : name \in PresetNames}
  \cup {<<txt(name)>> : name \in PresetNames}
  \cup {Undefined}

UrlInit ==
  urlCall \in [path : Paths, size : SizeArguments, format : {"webp", "jpg"},
               retina : BOOLEAN, url : {Undefined}]

\* The call returns.
UrlReturn ==
  /\ urlCall.url = Undefined
  /\ urlCall' = [urlCall EXCEPT !.url = getOptimizedImageUrl(urlCall.path,
                   [size |-> urlCall.size, format |-> urlCall.format,
                    retina |-> urlCall.retina])]
  /\ UNCHANGED <<appVars, images, gateway, session, favs, watch, modal>>

NextUrl == UrlReturn

InitUrl == AppInit /\ images = << >> /\ gateway = << >> /\ session = << >>
  /\ favs = << >> /\ watch = << >> /\ modal = << >> /\ UrlInit

SpecUrl == InitUrl /\ [][NextUrl]_vars

\* ================================================================ claims
isPage(r) == r.kind = "page"

pagePending == \E i \in 1..Len(inflight) : isPage(inflight[i])

\* The request was issued for criteria that are no longer the selected ones.
isStale(r) ==
  r.cat # category \/ r.tv # showTVSeriesPage \/ r.lang # selectedLanguage

\* This step is the arrival of outcome o for the i-th request in flight.
Resolved(i, o) ==
  /\ i <= Len(inflight)
  /\ Len(inflight') = Len(inflight) - 1
  /\ Resolve(i, o)

\* This step is the keystroke that changes the input to value.
Typed(value) == events' = events + 1 /\ SearchChange(value)

LoadMoreStep == events' = events + 1 /\ (LoadMoreClick \/ Intersect)

ClearStep ==
  /\ events' = events + 1
  /\ \/ \E value \in Queries : trim(value) = << >> /\ SearchChange(value)
     \/ KeyDown("Escape")
     \/ ClearSearchClick

SubmitStep ==
  /\ events' = events + 1
  /\ \/ (trim(search) # << >> /\ KeyDown("Enter"))
     \/ \E i \in 1..MaxSuggestions : SuggestionClick(i)

\* C1: a load-more (button click or last-cell visibility) that arrives while a
\* page fetch is still pending issues no further request, so at most one page
\* request is in flight for the accumulator.
C1_LoadMoreWhilePendingIssuesNothing ==
  [][(pagePending /\ LoadMoreStep) => inflight' = inflight]_vars

\* C2: a page response whose request was issued for a category, media type or
\* language that is no longer selected is not applied: movies, page, hasMore
\* and featured keep their values.
C2_StaleResponseNotApplied ==
  [][\A i \in 1..MaxInflight, o \in Outcomes :
       (/\ i <= Len(inflight)
        /\ isPage(inflight[i])
        /\ isStale(inflight[i])
        /\ Resolved(i, o))
         => UNCHANGED <<movies, page, hasMore, featured>>]_vars

\* C3: in every reachable state the accumulated list holds each identifier
\* at most once.
C3_NoDuplicateIds ==
  \A i, j \in 1..Len(movies) : i # j => movies[i].id # movies[j].id

\* C4: clearing the query (typing a blank value, Escape, the clear button)
\* cancels every pending timer, and while the query is blank no timer fires and
\* no suggestion or search response changes suggestions, searchResults, movies,
\* featured, hasMore or page.
C4_ClearedQueryIsQuiet ==
  [][/\ ClearStep => timers' = << >>
     /\ trim(search) = << >> =>
          /\ \A i \in 1..MaxTimers : ~TimerFires(i)
          /\ \A i \in 1..MaxInflight, o \in Outcomes :
               (/\ i <= Len(inflight)
                /\ ~isPage(inflight[i])
                /\ Resolved(i, o))
                 => UNCHANGED <<suggestions, searchResults, movies, featured,
                                hasMore, page>>]_vars

\* C5: every keystroke that leaves a query of two or more characters cancels
\* and re-arms both timers, so that exactly one suggestion timer and exactly one
\* full-search timer are pending afterwards, both for the value just typed.
C5_KeystrokeRearmsBothTimers ==
  [][\A value \in Queries :
       (Len(trim(value)) >= 2 /\ Typed(value))
         => /\ Len(timers') = 2
            /\ {<<timers'[i].kind, timers'[i].value, timers'[i].left>> :
                  i \in 1..Len(timers')}
               = {<<"suggest", value, SuggestDelay>>, <<"search", value, SearchDelay>>}]_vars

\* C6: an explicit submit (Enter with a non-blank query, or a suggestion click)
\* cancels every pending timer and issues exactly one full-search request.
C6_SubmitCancelsTimers ==
  [][SubmitStep =>
       /\ timers' = << >>
       /\ Len(inflight') = Len(inflight) + 1
       /\ inflight'[Len(inflight')].kind = "search"
       /\ inflight'[Len(inflight')].query = search'
       /\ SubSeq(inflight', 1, Len(inflight)) = inflight]_vars

\* C7: a keystroke that leaves a query of trimmed length 1 clears suggestions
\* and full results, issues no request and leaves no timer armed by an earlier,
\* longer value pending.
C7_ShortQueryIsSilent ==
  [][\A value \in Queries :
       (Len(trim(value)) = 1 /\ Typed(value))
         => /\ suggestions' = << >>
            /\ searchResults' = << >>
            /\ inflight' = inflight
            /\ timers' = << >>]_vars

\* C8: a next page is merged only when the page before it is the accumulator's
\* current page: page N+1 is applied in a state where page = N.
C8_PagesAppliedInOrder ==
  [][\A i \in 1..MaxInflight, o \in Outcomes :
       (/\ i <= Len(inflight)
        /\ isPage(inflight[i])
        /\ inflight[i].pageNum > 1
        /\ pageFailure(variant, o) = Null
        /\ Resolved(i, o))
         => inflight[i].pageNum = page + 1]_vars

\* C9: a next-page response with status 429 leaves movies, page, hasMore and
\* featured as they were and sets error to the rate-limit message.
C9_RateLimitOnNextPage ==
  [][\A i \in 1..MaxInflight, o \in Outcomes :
       (/\ i <= Len(inflight)
        /\ isPage(inflight[i])
        /\ inflight[i].pageNum > 1
        /\ o.status = 429
        /\ Resolved(i, o))
         => /\ UNCHANGED <<movies, page, hasMore, featured>>
            /\ error' = MsgRateLimit]_vars

\* C10: a failed page fetch sets an error message and leaves the accumulated
\* list unchanged; a failed first-page fetch also clears the featured item.
C10_FailureKeepsListClearsFeatured ==
  [][\A i \in 1..MaxInflight, o \in Outcomes :
       (/\ i <= Len(inflight)
        /\ isPage(inflight[i])
        /\ pageFailure(variant, o) # Null
        /\ Resolved(i, o))
         => /\ error' # Null
            /\ movies' = movies
            /\ (inflight[i].pageNum = 1 => featured' = << >>)]_vars

isFailure(o) == o.status # 200

failed(r, o) ==
  IF isPage(r) THEN pageFailure(variant, o) # Null
  ELSE IF r.kind = "search" THEN searchFailure(variant, o) # Null
  ELSE isFailure(o)

\* C12 (as stated): once a fetch has failed and its error is shown, a request
\* is issued only by a step that is a user action.
C12_RequestsAfterFailureNeedUser ==
  [][(error # Null /\ Len(inflight') > Len(inflight)) => events' = events + 1]_vars

\* C12 (amended): the handling of a failed response issues no request; while
\* an error is shown the last-cell watch is disconnected; and a request issued
\* in that state without a user action is the suggestion or search request of
\* a debounce timer that an earlier keystroke armed, never a page request.
C12_NoAutomaticRetry ==
  [][/\ error # Null => ~observing
     /\ \A i \in 1..MaxInflight, o \in Outcomes :
          (/\ i <= Len(inflight)
           /\ events' = events
           /\ failed(inflight[i], o)
           /\ Resolve(i, o))
            => inflight' = removeAt(inflight, i)
     /\ (error # Null /\ events' = events /\ Len(inflight') > Len(inflight))
          => /\ ~isPage(inflight'[Len(inflight')])
             /\ \E i \in 1..Len(timers) :
                  timers[i].left = 0 /\ timers' = removeAt(timers, i)]_vars

\* A next-page fetch has failed: the error is shown over a kept list and
\* nothing is pending.
C12_Witness ==
  /\ error # Null
  /\ movies # << >>
  /\ inflight = << >>
  /\ timers = << >>

\* C13: for a lazy, non-priority image the watch is single-shot: the delivery
\* of an intersecting entry sets isVisible and leaves the observer
\* disconnected, setIsVisible(true) is called at most once however often the
\* node is (or stays) in view afterwards, and isVisible never goes back to
\* false.
C13_SingleShotWatch ==
  [][\A k \in 1..NImages :
       LET a == images[k]
           b == images'[k]
       IN /\ a.isVisible => b.isVisible
          /\ b.isVisible => ~b.observing
          /\ b.calls <= 1
          /\ (/\ a.lazy /\ ~a.priority /\ a.observing
              /\ a.entries # << >> /\ Head(a.entries)
              /\ ImgDeliver(k))
               => b.isVisible /\ ~b.observing /\ b.calls = 1]_vars

\* A lazy image became visible through its observer; its node is in view and
\* the callback has run its effect once.
C13_Witness ==
  \E k \in 1..NImages :
    /\ images # << >>
    /\ images[k].lazy /\ ~images[k].priority
    /\ images[k].isVisible /\ images[k].calls = 1
    /\ images[k].inView /\ ~images[k].observing

stored(o) ==
  SelectSeq(o.results, LAMBDA m : variant = "appjs" \/ isValidMediaItem(m))

\* C15: a successful first-page load replaces the accumulator with the
\* returned items (nothing of the previous list is kept), sets page to 1, sets
\* hasMore to 1 < total_pages and sets the featured item to the first item of
\* the page, or to none when the page is empty.
C15_FirstPageReplaces ==
  [][\A i \in 1..MaxInflight, o \in Outcomes :
       (/\ i <= Len(inflight)
        /\ isPage(inflight[i])
        /\ inflight[i].pageNum = 1
        /\ pageFailure(variant, o) = Null
        /\ Resolved(i, o))
         => /\ movies' = stored(o)
            /\ page' = 1
            /\ hasMore' = (1 < o.total_pages)
            /\ featured' = IF stored(o) = << >> THEN << >> ELSE <<stored(o)[1]>>]_vars

\* The first page of a newly selected category has been loaded: the
\* accumulator is exactly that page and its first item is featured.
C15_Witness ==
  /\ category = "popular"
  /\ inflight = << >>
  /\ page = 1 /\ hasMore
  /\ movies = pageAB
  /\ featured = <<itemA>>

\* C16: a successful next-page load appends, in the returned order, exactly the
\* returned items whose identifier is not yet in the accumulator, keeps the
\* existing items where they are, increments page by one and sets hasMore to
\* page < total_pages.
C16_NextPageMerges ==
  [][\A i \in 1..MaxInflight, o \in Outcomes :
       (/\ i <= Len(inflight)
        /\ isPage(inflight[i])
        /\ inflight[i].pageNum > 1
        /\ pageFailure(variant, o) = Null
        /\ Resolved(i, o))
         => /\ movies' = movies \o SelectSeq(stored(o),
                                              LAMBDA m : m.id \notin ids(movies))
            /\ page' = page + 1
            /\ hasMore' = (page' < o.total_pages)]_vars

\* The response is an error status other than 429, or a success whose body
\* lacks the results array.
isInvalidResponse(o) ==
  (o.status \notin {0, 200, 429}) \/ (o.status = 200 /\ ~o.hasResults)

\* C17: a page response with an error status other than 429, or a success
\* response without a results array, is handled as a failure: the error state
\* is set and the response is not applied as a page (page and hasMore keep
\* their values).
C17_InvalidResponseIsFailure ==
  [][\A i \in 1..MaxInflight, o \in Outcomes :
       (/\ i <= Len(inflight)
        /\ isPage(inflight[i])
        /\ isInvalidResponse(o)
        /\ Resolved(i, o))
         => /\ error' # Null
            /\ page' = page
            /\ hasMore' = hasMore]_vars

\* The category has its own branch in the endpoint choice of the media type.
knownCategory(version, tv, cat) ==
  \/ cat = "trending"
  \/ IF version = "v3"
     THEN cat = "filipino" \/ cat \in DOMAIN genreMap
          \/ (tv /\ cat \in {"upcoming", "now_playing"})
     ELSE IF tv THEN cat \in DOMAIN tvCatMap
          ELSE cat = "filipino" \/ cat \in DOMAIN genreMap

C19_ConfigErrorStays ==
  ~API_KEY =>
    /\ error = MsgConfig
    /\ \A i \in 1..Len(inflight) : ~isPage(inflight[i])

\* C20: the media type, category and last search query stored at the end of
\* one session are the values the next startup restores into state.
C20_PreferencesRestored ==
  [][(/\ session.sessions < MaxSessions
      /\ session'.sessions = session.sessions + 1
      /\ PrefReload)
       => /\ session'.showTVSeriesPage = session.showTVSeriesPage
          /\ session'.category = session.category
          /\ trim(session.search) # << >> => session'.search = session.search]_vars

\* C21: a keystroke that leaves a blank query acts at once: in the same step
\* suggestions and full results are empty, page is 1, hasMore is true, a
\* first-page request for the selected category is issued, and the displayed
\* list is the browse accumulator again.
C21_BlankQueryRestoresBrowse ==
  [][\A value \in Queries :
       (trim(value) = << >> /\ Typed(value))
         => /\ suggestions' = << >>
            /\ searchResults' = << >>
            /\ page' = 1
            /\ hasMore'
            /\ trim(search') = << >>
            /\ \E i \in (Len(inflight) + 1)..Len(inflight') :
                 /\ isPage(inflight'[i])
                 /\ inflight'[i].pageNum = 1
                 /\ inflight'[i].cat = category'
                 /\ inflight'[i].tv = showTVSeriesPage'
                 /\ inflight'[i].lang = selectedLanguage']_vars

\* A list was loaded, the input was blanked by a keystroke, and the first page
\* of the category is being fetched again.
C21_Witness ==
  /\ search = qSpace
  /\ suggestions = << >> /\ searchResults = << >>
  /\ page = 1 /\ hasMore
  /\ \E i \in 1..Len(inflight) :
       isPage(inflight[i]) /\ inflight[i].pageNum = 1 /\ inflight[i].cat = category

\* C22: starting from an empty list, after any sequence of toggleFavorite
\* calls in either media mode the list holds at most one entry per (id, media
\* type), and an (id, media type) is in the list exactly when toggleFavorite
\* was called for it an odd number of times.
C22_FavoritesFollowToggleParity ==
  /\ \A i, j \in 1..Len(favs.favorites) :
       i # j => <<favs.favorites[i].id, favs.favorites[i].type>>
                # <<favs.favorites[j].id, favs.favorites[j].type>>
  /\ \A k \in FavoriteKeys :
       (\E i \in 1..Len(favs.favorites) :
          <<favs.favorites[i].id, favs.favorites[i].type>> = k)
       <=> favs.calls[k] % 2 = 1

\* The same id is a favorite in both modes, and another item was added and
\* removed again.
C22_Witness ==
  /\ Len(favs.favorites) = 2
  /\ favs.favorites[1].id = favs.favorites[2].id
  /\ \E k \in FavoriteKeys : favs.calls[k] = 2

\* C23: the suggestion timer and the full-search timer run independently and
\* the suggestion timer is the shorter one: when the full-search timer of a
\* value fires, no suggestion timer for that value is still pending, so the
\* suggestions of a query can be on screen before its full search is issued.
C23_SuggestionsRequestedBeforeSearch ==
  [][\A i \in 1..MaxTimers :
       (/\ i <= Len(timers)
        /\ timers[i].kind = "search"
        /\ timers[i].left = 0
        /\ Len(timers') = Len(timers) - 1
        /\ TimerFires(i))
         => \A j \in 1..Len(timers) :
              ~(timers[j].kind = "suggest" /\ timers[j].value = timers[i].value)]_vars

\* After a single keystroke the suggestions of the typed query are shown
\* while its full-search timer has not fired yet.
C23_Witness ==
  /\ events = 1
  /\ Len(trim(search)) >= 2
  /\ suggestions # << >>
  /\ searchResults = << >>
  /\ \E i \in 1..Len(timers) :
       timers[i].kind = "search" /\ timers[i].value = search /\ timers[i].left > 0
  /\ \A i \in 1..Len(inflight) : inflight[i].kind # "search"

\* C24: whenever the loading flag is false, no first-page request and no
\* full-search request is in flight.
C24_LoadingCoversPendingRequests ==
  ~loading =>
     \A i \in 1..Len(inflight) :
       /\ ~(isPage(inflight[i]) /\ inflight[i].pageNum = 1)
       /\ inflight[i].kind # "search"

\* C25: selecting a category issues first-page requests for the newly selected
\* category only, never for the category that was active before.
C25_SelectFetchesNewCategoryOnly ==
  [][\A cat \in movieCategoryLabels \cup tvCategoryLabels :
       (/\ cat # category
        /\ events' = events + 1
        /\ SelectCategory(cat))
         => \A i \in (Len(inflight) + 1)..Len(inflight') :
              isPage(inflight'[i]) => inflight'[i].cat = cat]_vars

\* C26: once the full search for the query has completed successfully (results
\* shown, nothing typed since, no timer pending), a suggestion response that
\* arrives later leaves the suggestion list empty.
C26_LateSuggestionsStayHidden ==
  [][\A i \in 1..MaxInflight, o \in Outcomes :
       (/\ i <= Len(inflight)
        /\ inflight[i].kind = "suggest"
        /\ inflight[i].query = search
        /\ ~isSearching
        /\ searchResults # << >>
        /\ suggestions = << >>
        /\ timers = << >>
        /\ Resolved(i, o))
         => suggestions' = << >>]_vars

\* C27: in every reachable state the active category is one of the
\* categories offered for the active media mode.
C27_CategoryBelongsToMode == category \in currentCategoryLabels(Cur)

\* C28: in every reachable state the TV details modal is open only while a
\* show is selected, and is never open while the player is active.
C28_ModalNeedsShowAndNoPlayer ==
  /\ watch.showTVDetails => watch.selectedTVShow # << >>
  /\ ~(watch.showTVDetails /\ watch.watchUrl # << >>)

\* The modal was reopened by the Back button after an episode was played.
C28_Witness ==
  /\ watch.showTVDetails
  /\ watch.watchUrl = << >>
  /\ watch.selectedTVShow # << >>
  /\ watch.lastSelectedEpisode = watch.selectedTVShow

\* C29: whenever the modal displays an episode list, every episode of the
\* list belongs to the show the modal is displaying and to its selectedSeason.
C29_EpisodesBelongToShowAndSeason ==
  episodesRendered(modal) =>
    \A i \in 1..Len(modal.episodes) :
      /\ modal.episodes[i].show_id = modal.show[1]
      /\ modal.episodes[i].season_number = modal.selectedSeason

\* The preset a size argument stands for, by value or by name.
presetOf(size) ==
  IF size \in {imageSizes[name] : name \in PresetNames} THEN size
  ELSE imageSizes[size[1].s]

\* C30: for a non-empty path and a size preset, passed by value or by name,
\* getOptimizedImageUrl returns the TMDB base, that preset's size segment and
\* the path, followed by the webp query exactly when format is webp and the
\* size is not original; for an empty path it returns the placeholder.
C30_UrlUsesPresetSegment ==
  (urlCall.url # Undefined /\ urlCall.size # Undefined /\ ~urlCall.retina)
    => urlCall.url =
         IF urlCall.path = << >> THEN PLACEHOLDER_IMAGE
         ELSE TMDB_IMAGE_BASE \o presetOf(urlCall.size) \o urlCall.path
              \o (IF urlCall.format = "webp"
                     /\ presetOf(urlCall.size) # imageSizes.original
                  THEN queryWebp(DefaultQuality) ELSE << >>)

====
